---- MODULE Spec2Model ----
(***************************************************************************)
(* Model of the TaskManager component (src/app/components/TaskManager.tsx):*)
(* the task list and its localStorage mirror, the editor session (form,    *)
(* activeTask, modal flag), the handlers that mutate them, and the derived *)
(* views (week window, filtered tasks, grouped tasks, week completion).    *)
(*                                                                         *)
(* Representation.                                                         *)
(*  - A JavaScript string is a sequence of one-character strings; a time   *)
(*    string "HH:MM" is the sequence of its four digits (the colon has a   *)
(*    fixed position and is left out), "" is <<>>.                         *)
(*  - A date string YYYY-MM-DD is the number of days since 1970-01-01; an  *)
(*    instant is a number of minutes since 1970-01-01T00:00Z.  For dates   *)
(*    of equal length the string order of the code is the numeric order.   *)
(*  - "T | undefined" and "T | null" are sets with at most one element.    *)
(*  - A JavaScript value held in `tasks` or stored as JSON text is a       *)
(*    record [kind, items]: kind "array" with its elements, or a kind that *)
(*    is not an array.                                                     *)
(*  - Task fields description, category and endTime are not modelled: the  *)
(*    code carries them exactly like title (trimmed) and startTime         *)
(*    (verbatim) and nothing derived reads them.                           *)
(***************************************************************************)
EXTENDS Integers, Sequences, FiniteSets, TLC

VARIABLES
    tasks,          \* useState<Task[]>: the in-memory list (a JS value)
    storage,        \* localStorage slot STORAGE_KEY
    pending,        \* state updates queued by setTasks during the mount effects
    pc,             \* position of the component: mount effects, ready, crashed
    isModalOpen,    \* useState(false)
    selectedDate,   \* useState(todayISO())
    viewMode,       \* useState('day')
    activeTask,     \* useState<Task | null>(null)
    form,           \* useState({...})
    nextId,         \* number of identifiers generateId has handed out
    tz,             \* offset of the local clock from UTC, in minutes
    lastOp          \* history: the effect or store/editor handler that ran last,
                    \* and whether the id it named was in the list

vars == <<tasks, storage, pending, pc, isModalOpen, selectedDate, viewMode,
          activeTask, form, nextId, tz, lastOp>>

----------------------------------------------------------------------------
(* Bounds of the model *)

\* identifiers generateId may hand out in one session
MaxIds == 2
\* length of the task lists the view specification starts from
MaxViewTasks == 2

----------------------------------------------------------------------------
(* Strings *)

Space == " "

RECURSIVE TrimStart(_)
TrimStart(s) ==
    IF s # <<>> /\ Head(s) = Space THEN TrimStart(Tail(s)) ELSE s

RECURSIVE TrimEnd(_)
TrimEnd(s) ==
    IF s # <<>> /\ s[Len(s)] = Space THEN TrimEnd(SubSeq(s, 1, Len(s) - 1)) ELSE s

\* String.prototype.trim
Trim(s) == TrimEnd(TrimStart(s))

RECURSIVE LocaleCompare(_, _)
\* String.prototype.localeCompare on digit strings: -1, 0 or 1
LocaleCompare(a, b) ==
    IF a = <<>> /\ b = <<>> THEN 0
    ELSE IF a = <<>> THEN -1
    ELSE IF b = <<>> THEN 1
    ELSE IF Head(a) < Head(b) THEN -1
    ELSE IF Head(a) > Head(b) THEN 1
    ELSE LocaleCompare(Tail(a), Tail(b))

----------------------------------------------------------------------------
(* Types *)

Status == {"pending", "in-progress", "done"}
Priority == {"high", "medium", "low"}
ViewModes == {"day", "week", "all"}

\* days since 1970-01-01 of the date 2024-03-dd
Mar2024(dd) == 19782 + dd

Arr(items) == [kind |-> "array", items |-> items]
NotArr(kind) == [kind |-> kind, items |-> <<>>]

Front(s) == SubSeq(s, 1, Len(s) - 1)
Last(s) == s[Len(s)]

----------------------------------------------------------------------------
(* JSON text of the task list: JSON.stringify and JSON.parse *)

\* The text of one task object: its keys in the order handleSubmit builds
\* them, a key whose value is undefined left out.
StringifyTask(t) ==
    << <<"id", t.id>>, <<"title", t.title>>, <<"startTime", t.startTime>>,
       <<"priority", t.priority>>, <<"date", t.date>>, <<"status", t.status>> >>
    \o (IF t.notes = {} THEN <<>> ELSE << <<"notes", CHOOSE n \in t.notes : TRUE>> >>)

\* JSON.stringify(tasks), the text written by the persist effect
Stringify(v) ==
    IF v.kind = "array"
    THEN Arr([i \in 1..Len(v.items) |-> StringifyTask(v.items[i])])
    ELSE v

\* the values an object text holds under a key: none when the key is absent
Field(obj, key) == {obj[i][2] : i \in {j \in DOMAIN obj : obj[j][1] = key}}
The(S) == CHOOSE x \in S : TRUE

ParseTask(obj) ==
    [id |-> The(Field(obj, "id")), title |-> The(Field(obj, "title")),
     date |-> The(Field(obj, "date")), startTime |-> The(Field(obj, "startTime")),
     priority |-> The(Field(obj, "priority")), status |-> The(Field(obj, "status")),
     notes |-> Field(obj, "notes")]

\* JSON.parse of a text that is valid JSON
Parse(text) ==
    IF text.kind = "array"
    THEN Arr([i \in 1..Len(text.items) |-> ParseTask(text.items[i])])
    ELSE text

----------------------------------------------------------------------------
(* Dates: new Date(s + 'T00:00:00'), getDay, setDate, toISOString *)

\* new Date(date + 'T00:00:00'): local midnight of the date, as an instant
LocalMidnight(date, off) == date * 1440 - off

\* Date.prototype.getDay: the local weekday, 0 = Sunday (1970-01-01 was a Thursday)
GetDay(inst, off) == (((inst + off) \div 1440) + 4) % 7

\* d.setDate(d.getDate() + k): k local calendar days later, same local time
AddDays(inst, k) == inst + k * 1440

\* toISOString().split('T')[0]: the UTC date of the instant
ToISODate(inst) == inst \div 1440

\* useMemo upcomingWeekDates: the 7 date strings of the week of selectedDate
UpcomingWeekDates(sel, off) ==
    LET base == LocalMidnight(sel, off)
        start == AddDays(base, 0 - GetDay(base, off))
    IN  [index \in 1..7 |-> ToISODate(AddDays(start, index - 1))]

Includes(seq, x) == \E i \in DOMAIN seq : seq[i] = x

----------------------------------------------------------------------------
(* Derived views *)

InSelectedDay(items, sel) == SelectSeq(items, LAMBDA task : task.date = sel)

\* useMemo filteredTasks, on the elements of the task list
FilteredTasks(items, sel, mode, off) ==
    IF mode = "all" THEN items
    ELSE IF mode = "week"
         THEN SelectSeq(items, LAMBDA task : Includes(UpcomingWeekDates(sel, off), task.date))
         ELSE InSelectedDay(items, sel)

RECURSIVE GroupKeys(_)
\* the keys of the Map `groups`, in the order forEach first meets them
GroupKeys(f) ==
    IF f = <<>> THEN <<>>
    ELSE LET keys == GroupKeys(Front(f))
         IN  IF Includes(keys, Last(f).date) THEN keys ELSE Append(keys, Last(f).date)

RECURSIVE InsertKey(_, _)
\* the place the comparator (a < b ? -1 : 1) gives a key among sorted keys
InsertKey(s, x) ==
    IF s = <<>> THEN <<x>>
    ELSE IF Last(s) < x THEN Append(s, x)
    ELSE Append(InsertKey(Front(s), x), Last(s))

RECURSIVE SortKeys(_)
SortKeys(s) == IF s = <<>> THEN <<>> ELSE InsertKey(SortKeys(Front(s)), Last(s))

ItemsUnstable(s, x) == LocaleCompare(Last(s).startTime, x.startTime) < 0

\* whether x stays behind the last element of s: the comparator of items.sort
ItemsInOrder(s, x) == LocaleCompare(Last(s).startTime, x.startTime) <= 0

RECURSIVE InsertItem(_, _)
InsertItem(s, x) ==
    IF s = <<>> THEN <<x>>
    ELSE IF ItemsInOrder(s, x) THEN Append(s, x)
    ELSE Append(InsertItem(Front(s), x), Last(s))

RECURSIVE SortItems(_)
\* items.sort((t1, t2) => t1.startTime.localeCompare(t2.startTime)): a stable sort
SortItems(s) == IF s = <<>> THEN <<>> ELSE InsertItem(SortItems(Front(s)), Last(s))

GroupedTasksReset(f) ==
    LET keys == SortKeys(GroupKeys(f))
    IN  [g \in 1..Len(keys) |->
            [date |-> keys[g],
             items |-> <<Last(SelectSeq(f, LAMBDA task : task.date = keys[g]))>>]]

\* useMemo groupedTasks: one {date, items} per date of the filtered view
GroupedTasks(f) ==
    LET keys == SortKeys(GroupKeys(f))
    IN  [g \in 1..Len(keys) |->
            [date |-> keys[g],
             items |-> SortItems(SelectSeq(f, LAMBDA task : task.date = keys[g]))]]

CountDone(s) == Len(SelectSeq(s, LAMBDA task : task.status = "done"))

\* Math.round((doneCount / n) * 100): the nearest integer, a half rounded up
RoundPercent(doneCount, n) == (200 * doneCount + n) \div (2 * n)

\* the week completion percentage shown in the header
WeekCompletionRatio(items, sel, off) ==
    LET weekTasks == SelectSeq(items, LAMBDA task : Includes(UpcomingWeekDates(sel, off), task.date))
    IN  IF Len(weekTasks) = 0 THEN 0
        ELSE RoundPercent(CountDone(weekTasks), Len(weekTasks))

----------------------------------------------------------------------------
(* Inputs *)

\* todayISO() at the time of the session
Today == Mar2024(15)

\* what the user types into the title field
TitleInputs == {<<Space>>, <<Space, "a", Space>>}

\* the form edits of the model: the other fields keep the value that
\* resetForm or openEditModal gave them
FormInputs == {"title"} \X TitleInputs

\* a task written by an earlier session
StoredTask ==
    [id |-> 0, title |-> <<"a">>, date |-> Today, startTime |-> <<0, 9, 0, 0>>,
     priority |-> "high", status |-> "done", notes |-> {<<"n">>}]

\* what the storage slot may hold when the component mounts: nothing, the
\* empty string, text that is not JSON, JSON that is not an array, and arrays
\* of tasks
BootStorage ==
    {NotArr("absent"), NotArr("empty"), NotArr("invalid"), NotArr("object"),
     Stringify(Arr(<<>>)), Stringify(Arr(<<StoredTask>>))}

\* identifiers a handler may be called with: present ones and absent ones
IdPool == 0..MaxIds

----------------------------------------------------------------------------
(* The component *)

\* the form state of lines 67-76 and of resetForm, description, category and
\* endTime left out
BlankForm(date) ==
    [title |-> <<>>, startTime |-> <<>>, priority |-> "medium", date |-> date,
     notes |-> <<>>]

Init ==
    /\ tasks = Arr(<<>>)
    /\ storage \in BootStorage
    /\ pending = <<>>
    /\ pc = "load"
    /\ isModalOpen = FALSE
    /\ selectedDate = Today
    /\ viewMode = "day"
    /\ activeTask = {}
    /\ form = BlankForm(Today)
    /\ nextId = 1
    /\ tz = 0
    /\ lastOp = "construct"

session == <<isModalOpen, selectedDate, viewMode, activeTask, form, nextId, tz>>

\* if (stored): null and the empty string are falsy
Truthy(stored) == stored.kind \notin {"absent", "empty"}

\* JSON.parse(stored) returns instead of throwing
Parses(stored) == stored.kind # "invalid"

\* The load effect: reads the slot and queues setTasks(parsed).
LoadEffect ==
    /\ pc \in {"load", "reload"}
    /\ pending' = IF Truthy(storage) /\ Parses(storage)
                  THEN Append(pending, Parse(storage))
                  ELSE pending
    /\ pc' = IF pc = "load" THEN "persist" ELSE "repersist"
    /\ lastOp' = "loadEffect"
    /\ UNCHANGED <<tasks, storage, session>>

\* The persist effect of the mount: writes the list of the first render.  In
\* development under React's StrictMode the mount effects then run once more.
PersistEffect ==
    /\ pc \in {"persist", "repersist"}
    /\ storage' = Stringify(tasks)
    /\ pc' \in IF pc = "persist" THEN {"reload", "render"} ELSE {"render"}
    /\ lastOp' = "persistEffect"
    /\ UNCHANGED <<tasks, pending, session>>

\* what a render needs of `tasks`: tasks.filter is called on it
Renders(v) == v.kind = "array"

\* The render that applies the queued updates (the last one wins), and the
\* persist effect after it when `tasks` changed.  A render that throws commits
\* nothing and runs no effect.
Rerender ==
    /\ pc = "render"
    /\ tasks' = IF pending = <<>> THEN tasks ELSE Last(pending)
    /\ pending' = <<>>
    /\ pc' = IF Renders(tasks') THEN "ready" ELSE "crashed"
    /\ storage' = IF Renders(tasks') /\ pending # <<>> THEN Stringify(tasks') ELSE storage
    /\ lastOp' = "render"
    /\ UNCHANGED session

----------------------------------------------------------------------------
(* Handlers: each runs to completion, with the render and the persist effect
   that follow a setTasks *)

Ids(items) == {items[i].id : i \in DOMAIN items}

CommitUnsaved(next) ==
    /\ tasks' = Arr(next)
    /\ storage' = storage

\* setTasks(next), the render, and the persist effect of lines 90-92
Commit(next) ==
    /\ tasks' = Arr(next)
    /\ storage' = Stringify(Arr(next))

\* onChange of the date picker
SetSelectedDate(d) ==
    /\ pc = "ready"
    /\ selectedDate' = d
    /\ UNCHANGED <<tasks, storage, pending, pc, isModalOpen, viewMode, activeTask,
                   form, nextId, tz, lastOp>>

\* onClick of a view mode button
SetViewMode(mode) ==
    /\ pc = "ready"
    /\ viewMode' = mode
    /\ UNCHANGED <<tasks, storage, pending, pc, isModalOpen, selectedDate, activeTask,
                   form, nextId, tz, lastOp>>

OpenCreateModal ==
    /\ pc = "ready"
    /\ form' = BlankForm(selectedDate)
    /\ activeTask' = {}
    /\ isModalOpen' = TRUE
    /\ lastOp' = "openCreate"
    /\ UNCHANGED <<tasks, storage, pending, pc, selectedDate, viewMode, nextId, tz>>

\* the form openEditModal fills from the task
FormOf(task) ==
    [title |-> task.title, startTime |-> task.startTime, priority |-> task.priority,
     date |-> task.date, notes |-> IF task.notes = {} THEN <<>> ELSE The(task.notes)]

OpenEditModal(task) ==
    /\ pc = "ready"
    /\ activeTask' = {task}
    /\ form' = FormOf(task)
    /\ isModalOpen' = TRUE
    /\ lastOp' = "openEdit"
    /\ UNCHANGED <<tasks, storage, pending, pc, selectedDate, viewMode, nextId, tz>>

\* onChange of a form field; the form is rendered while the modal is shown
SetFormField(name, value) ==
    /\ pc = "ready"
    /\ isModalOpen
    /\ form' = [form EXCEPT ![name] = value]
    /\ lastOp' = "setForm"
    /\ UNCHANGED <<tasks, storage, pending, pc, isModalOpen, selectedDate, viewMode,
                   activeTask, nextId, tz>>

\* onClose of the dialog (Escape, a click outside): closes, keeps the session
CloseModal ==
    /\ pc = "ready"
    /\ isModalOpen
    /\ isModalOpen' = FALSE
    /\ lastOp' = "close"
    /\ UNCHANGED <<tasks, storage, pending, pc, selectedDate, viewMode, activeTask,
                   form, nextId, tz>>

\* onClick of the X and cancel buttons: closes and resets the form
CancelModal ==
    /\ pc = "ready"
    /\ isModalOpen
    /\ isModalOpen' = FALSE
    /\ form' = BlankForm(selectedDate)
    /\ activeTask' = {}
    /\ lastOp' = "cancel"
    /\ UNCHANGED <<tasks, storage, pending, pc, selectedDate, viewMode, nextId, tz>>

\* generateId(): a random UUID, taken to differ from every one handed out before
GenerateId == nextId

\* activeTask?.status ?? 'pending'
PayloadStatus == IF activeTask # {} THEN The(activeTask).status ELSE "pending"

PayloadTitleRaw == form.title

\* form.title.trim()
PayloadTitle == Trim(form.title)

\* the task handleSubmit builds from the form
Payload ==
    [id |-> IF activeTask # {} THEN The(activeTask).id ELSE GenerateId,
     title |-> PayloadTitle,
     startTime |-> form.startTime,
     priority |-> form.priority,
     date |-> form.date,
     status |-> PayloadStatus,
     notes |-> IF Trim(form.notes) = <<>> THEN {} ELSE {Trim(form.notes)}]

ReplacedOrAdded(items, id, payload) ==
    IF \E i \in DOMAIN items : items[i].id = id
    THEN [i \in DOMAIN items |-> IF items[i].id = id THEN payload ELSE items[i]]
    ELSE Append(items, payload)

\* prev.map(task => (task.id === activeTask.id ? payload : task))
Replaced(items, id, payload) ==
    [i \in DOMAIN items |-> IF items[i].id = id THEN payload ELSE items[i]]

RejectedIfEmpty == form.title = <<>>

\* if (!form.title.trim()) return;
Rejected == Trim(form.title) = <<>>

HandleSubmit ==
    /\ pc = "ready"
    /\ isModalOpen
    /\ IF Rejected
       THEN /\ lastOp' = "submit:rejected"
            /\ UNCHANGED <<tasks, storage, isModalOpen, form, activeTask, nextId>>
       ELSE /\ activeTask = {} => nextId <= MaxIds
            /\ IF activeTask # {}
               THEN /\ Commit(Replaced(tasks.items, The(activeTask).id, Payload))
                    /\ nextId' = nextId
                    /\ lastOp' = IF The(activeTask).id \in Ids(tasks.items)
                                 THEN "submit:edit" ELSE "submit:edit-absent"
               ELSE /\ Commit(Append(tasks.items, Payload))
                    /\ nextId' = nextId + 1
                    /\ lastOp' = "submit:create"
            /\ isModalOpen' = FALSE
            /\ form' = BlankForm(selectedDate)
            /\ activeTask' = {}
    /\ UNCHANGED <<pending, pc, selectedDate, viewMode, tz>>

\* prev.map(task => (task.id === taskId ? { ...task, status } : task))
WithStatus(items, taskId, status) ==
    [i \in DOMAIN items |->
        IF items[i].id = taskId THEN [items[i] EXCEPT !.status = status] ELSE items[i]]

UpdateStatus(taskId, status) ==
    /\ pc = "ready"
    /\ Commit(WithStatus(tasks.items, taskId, status))
    /\ lastOp' = IF taskId \in Ids(tasks.items) THEN "updateStatus" ELSE "updateStatus:absent"
    /\ UNCHANGED <<pending, pc, session>>

\* prev.filter(task => task.id !== taskId)
Without(items, taskId) == SelectSeq(items, LAMBDA task : task.id # taskId)

DeleteTask(taskId) ==
    /\ pc = "ready"
    /\ Commit(Without(tasks.items, taskId))
    /\ lastOp' = IF taskId \in Ids(tasks.items) THEN "deleteTask" ELSE "deleteTask:absent"
    /\ UNCHANGED <<pending, pc, session>>

----------------------------------------------------------------------------
(* The session: mount, then the editor and the store handlers *)

OpenEdit == \E i \in DOMAIN tasks.items : OpenEditModal(tasks.items[i])
EditField == \E in \in FormInputs : SetFormField(in[1], in[2])
ChangeStatus == \E id \in IdPool, s \in Status : UpdateStatus(id, s)
Delete == \E id \in IdPool : DeleteTask(id)

Next ==
    \/ LoadEffect
    \/ PersistEffect
    \/ Rerender
    \/ OpenCreateModal
    \/ OpenEdit
    \/ EditField
    \/ CloseModal
    \/ CancelModal
    \/ HandleSubmit
    \/ ChangeStatus
    \/ Delete

Spec == Init /\ [][Next]_vars

----------------------------------------------------------------------------
(* The views: a ready component holding any list of tasks, under any local
   offset; the date picker and the view mode buttons re-derive the views *)

\* dates of the tasks: the days around the week 2024-03-10..2024-03-16
TaskDates == {Mar2024(9), Mar2024(10), Mar2024(16), Mar2024(17)}
\* dates picked as selectedDate: the Sunday, the Friday, the Saturday of that week
SelDates == {Mar2024(10), Mar2024(15), Mar2024(16)}
StartTimes == {<<>>, <<0, 9, 0, 0>>, <<1, 4, 0, 0>>}
\* status and priority of the listed tasks
Flavours == {<<"pending", "high">>, <<"done", "low">>}
\* local clock minus UTC, in minutes: New York (winter), UTC, Cairo
TzOffsets == {0 - 300, 0, 120}

ViewTask(i, date, startTime, flavour) ==
    [id |-> i, title |-> <<"a">>, date |-> date, startTime |-> startTime,
     priority |-> flavour[2], status |-> flavour[1], notes |-> {}]

ViewLists ==
    UNION {
        {[i \in 1..n |-> ViewTask(i, shape[i][1], shape[i][2], shape[i][3])] :
            shape \in [1..n -> TaskDates \X StartTimes \X Flavours]} :
        n \in 0..MaxViewTasks}

InitView ==
    /\ tasks \in {Arr(items) : items \in ViewLists}
    /\ storage = Stringify(tasks)
    /\ pending = <<>>
    /\ pc = "ready"
    /\ isModalOpen = FALSE
    /\ selectedDate \in SelDates
    /\ viewMode \in ViewModes
    /\ activeTask = {}
    /\ form = BlankForm(Today)
    /\ nextId = 1
    /\ tz \in TzOffsets
    /\ lastOp = "render"

PickDate == \E d \in SelDates : SetSelectedDate(d)
PickView == \E mode \in ViewModes : SetViewMode(mode)

NextView ==
    \/ PickDate
    \/ PickView

SpecView == InitView /\ [][NextView]_vars

----------------------------------------------------------------------------
(* Properties of the views *)

\* the calendar's Sunday on or before a date (1970-01-01 was a Thursday)
SundayOnOrBefore(date) == date - ((date + 4) % 7)

\* the date lies in the Sunday..Saturday week of sel
InWeekOf(sel, date) ==
    /\ SundayOnOrBefore(sel) <= date
    /\ date <= SundayOnOrBefore(sel) + 6

Visible == FilteredTasks(tasks.items, selectedDate, viewMode, tz)
Groups == GroupedTasks(Visible)

\* C1: in week view the visible tasks are exactly the tasks dated in the
\* seven days from the Sunday on or before selectedDate to the Saturday after
\* it, whatever the local offset from UTC.
C1_WeekViewIsSundayToSaturday ==
    (pc = "ready" /\ viewMode = "week") =>
        Visible = SelectSeq(tasks.items, LAMBDA task : InWeekOf(selectedDate, task.date))

\* the places (group, index) of a grouped view that hold the task
PlacesOf(groups, task) ==
    {p \in UNION {{<<g, k>> : k \in DOMAIN groups[g].items} : g \in DOMAIN groups} :
        groups[p[1]].items[p[2]] = task}

\* C8: grouping partitions the filtered view: every visible task is in exactly
\* one group, the group of its own date; no group is empty, no two groups share
\* a date, no group holds a task that is not visible; day view is the tasks of
\* selectedDate and all view is the whole list, whatever their status or priority.
C8_GroupingPartitionsView ==
    pc = "ready" =>
        LET visible == Visible
            groups == GroupedTasks(visible)
        IN  /\ \A i \in DOMAIN visible :
                  LET places == PlacesOf(groups, visible[i])
                  IN  /\ Cardinality(places) = 1
                      /\ \A p \in places : groups[p[1]].date = visible[i].date
            /\ \A g \in DOMAIN groups :
                  /\ groups[g].items # <<>>
                  /\ \A k \in DOMAIN groups[g].items : Includes(visible, groups[g].items[k])
                  /\ \A h \in DOMAIN groups : groups[g].date = groups[h].date => g = h
            /\ \A i \in DOMAIN tasks.items :
                  /\ viewMode = "day" =>
                        (Includes(visible, tasks.items[i]) <=> tasks.items[i].date = selectedDate)
                  /\ viewMode = "all" => Includes(visible, tasks.items[i])
            /\ viewMode = "all" => visible = tasks.items

C8_Witness ==
    /\ pc = "ready"
    /\ viewMode = "day"
    /\ Len(tasks.items) = 2
    /\ Len(Visible) = 1
    /\ Visible[1].status = "done"
    /\ Visible[1].priority = "low"
    /\ Len(Groups) = 1

\* the place of a task in the store's list
IndexOf(task) == CHOOSE i \in DOMAIN tasks.items : tasks.items[i] = task

GroupsOrdered ==
    pc = "ready" =>
        LET groups == Groups
        IN  /\ \A g \in DOMAIN groups : g > 1 => groups[g - 1].date < groups[g].date
            /\ \A g \in DOMAIN groups : \A k \in DOMAIN groups[g].items : k > 1 =>
                  LET t1 == groups[g].items[k - 1]
                      t2 == groups[g].items[k]
                  IN  /\ LocaleCompare(t1.startTime, t2.startTime) <= 0
                      /\ t1.startTime = t2.startTime => IndexOf(t1) < IndexOf(t2)

\* C9: groups come in strictly ascending date order; in a group adjacent tasks
\* are in ascending startTime order (the empty startTime first), equal
\* startTimes in the order of the store; the handlers that re-derive the view
\* leave the store's list as it is.
C9_GroupedViewOrdered ==
    /\ []GroupsOrdered
    /\ [][(selectedDate' # selectedDate \/ viewMode' # viewMode) => tasks' = tasks]_vars

C9_Witness ==
    /\ pc = "ready"
    /\ viewMode = "all"
    /\ Len(tasks.items) = 2
    /\ tasks.items[1].startTime = <<1, 4, 0, 0>>
    /\ tasks.items[2].startTime = <<0, 9, 0, 0>>
    /\ Len(Groups) = 1
    /\ Groups[1].items = <<tasks.items[2], tasks.items[1]>>

WeekTasksOf(sel) == SelectSeq(tasks.items, LAMBDA task : InWeekOf(sel, task.date))
Ratio == WeekCompletionRatio(tasks.items, selectedDate, tz)

\* C10: weekCompletionRatio is an integer in 0..100; it is 0 when no task is
\* dated in the week of selectedDate, and otherwise 100 * done / n rounded,
\* n the tasks of that week and done those with status done; it is 100 when
\* all of them are done.
C10_WeekCompletionRatio ==
    pc = "ready" =>
        LET week == WeekTasksOf(selectedDate)
            n == Len(week)
            done == CountDone(week)
        IN  /\ Ratio \in 0..100
            /\ n = 0 => Ratio = 0
            /\ n > 0 => /\ 2 * n * Ratio <= 200 * done + n
                        /\ 200 * done + n < 2 * n * (Ratio + 1)
            /\ (n > 0 /\ done = n) => Ratio = 100

----------------------------------------------------------------------------
(* Properties of the store and the editor session *)

SubmitOps == {"submit:rejected", "submit:create", "submit:edit", "submit:edit-absent"}
MutatingOps ==
    {"submit:create", "submit:edit", "submit:edit-absent", "updateStatus",
     "updateStatus:absent", "deleteTask", "deleteTask:absent"}

\* C2: once a mutating operation has run to completion, the snapshot in the
\* storage slot reads back as the in-memory list: the same tasks, with the same
\* field values, in the same order.
C2_SnapshotIsCurrentList ==
    (pc = "ready" /\ lastOp \in MutatingOps) => Parse(storage) = tasks

C2_Witness ==
    /\ pc = "ready"
    /\ lastOp = "submit:edit"
    /\ Len(tasks.items) = 2
    /\ tasks.items[1].notes # {}
    /\ tasks.items[2].notes = {}
    /\ tasks.items[2].status = "done"
    /\ Parse(storage) = tasks

\* C3: whatever the storage slot holds at startup, load never leaves the
\* component in a failed state: the list it holds is an array that the views
\* can be derived from.
C3_LoadNeverFails ==
    /\ pc # "crashed"
    /\ pc = "ready" => Renders(tasks)

StatusOf(items, id) == {items[i].status : i \in {j \in DOMAIN items : items[j].id = id}}

\* C4: a successful submit of an edit session bound to a task of the store
\* replaces that task in place (same id, same position, same length, the other
\* tasks untouched) and leaves it the status it had in the store right before
\* the submit; and nothing but updateStatus changes the status of a task that
\* stays in the store.
C4_EditKeepsCurrentStatus ==
    [][/\ (lastOp' = "submit:edit" /\ activeTask # {}) =>
            /\ Len(tasks'.items) = Len(tasks.items)
            /\ \A i \in DOMAIN tasks.items :
                  /\ tasks'.items[i].id = tasks.items[i].id
                  /\ tasks'.items[i].status = tasks.items[i].status
                  /\ tasks.items[i].id # The(activeTask).id => tasks'.items[i] = tasks.items[i]
       /\ (pc = "ready" /\ lastOp' # "updateStatus") =>
            \A id \in Ids(tasks.items) \cap Ids(tasks'.items) :
                StatusOf(tasks'.items, id) = StatusOf(tasks.items, id)
      ]_vars

\* C5: a submit whose title is empty after trimming, in create mode or in edit
\* mode, changes nothing: the list and its snapshot are the same, and the
\* editor stays open with its fields and its bound task.
C5_BlankSubmitIsInert ==
    [][(lastOp' \in SubmitOps /\ isModalOpen /\ Trim(form.title) = <<>>) =>
            /\ tasks' = tasks
            /\ storage' = storage
            /\ form' = form
            /\ activeTask' = activeTask
            /\ isModalOpen'
            /\ pc' = "ready"
      ]_vars

C5_Witness ==
    /\ lastOp = "submit:rejected"
    /\ isModalOpen
    /\ form.title = <<Space>>
    /\ activeTask # {}
    /\ Len(tasks.items) >= 1

\* C6: updateStatus and deleteTask called with an id that is not in the store,
\* and the submit of an edit session whose bound task is no longer in the
\* store, leave the list as it is: same tasks, same order, same length.
C6_AbsentIdIsNoOp ==
    [][/\ lastOp' \in {"updateStatus:absent", "deleteTask:absent"} => tasks' = tasks
       /\ (/\ lastOp' \in SubmitOps
           /\ isModalOpen
           /\ activeTask # {}
           /\ \A t \in activeTask : t.id \notin Ids(tasks.items)) =>
                /\ tasks' = tasks
                /\ pc' = "ready"
      ]_vars

C6_Witness ==
    /\ pc = "ready"
    /\ lastOp = "submit:edit-absent"
    /\ Len(tasks.items) >= 1

TitlesTrimmed ==
    pc = "ready" =>
        \A i \in DOMAIN tasks.items :
            /\ tasks.items[i].title # <<>>
            /\ Trim(tasks.items[i].title) = tasks.items[i].title

\* C7: every task in the store has a non-empty title that equals its trimmed
\* value; a task created by a create-mode submit is appended with status
\* pending and an id that no task of the store had.
C7_CreatedTasksWellFormed ==
    /\ []TitlesTrimmed
    /\ [][lastOp' = "submit:create" =>
            /\ Len(tasks'.items) = Len(tasks.items) + 1
            /\ Front(tasks'.items) = tasks.items
            /\ Last(tasks'.items).status = "pending"
            /\ Last(tasks'.items).id \notin Ids(tasks.items)
         ]_vars

C7_Witness ==
    /\ pc = "ready"
    /\ lastOp = "submit:create"
    /\ Len(tasks.items) = 2
    /\ Ids(tasks.items) = {1, 2}
    /\ \A i \in DOMAIN tasks.items : tasks.items[i].title = <<"a">>
    /\ tasks.items[1].status = "done"
    /\ tasks.items[2].status = "pending"

----------------------------------------------------------------------------
(* Properties of the initialisation and of the week window *)

MountSteps == {"load", "persist", "reload", "repersist", "render"}

\* C11: a session that starts on a readable snapshot S keeps it through the
\* initialisation: no mount step, in a single or in a double run of the mount
\* effects, changes what the slot holds, and when the initialisation ends the
\* in-memory list is S.
C11_MountKeepsSnapshot ==
    [][(pc \in MountSteps /\ storage.kind = "array") =>
            /\ storage' = storage
            /\ pc' = "ready" => tasks' = Parse(storage)
      ]_vars

\* C12: the week window holds selectedDate, its 7 dates are distinct and
\* consecutive, and every task of the day view of selectedDate is in the week
\* view of selectedDate, for every weekday and every local offset.
C12_WeekHoldsSelectedDate ==
    pc = "ready" =>
        LET week == UpcomingWeekDates(selectedDate, tz)
        IN  /\ Len(week) = 7
            /\ Includes(week, selectedDate)
            /\ \A i \in 2..7 : week[i] = week[i - 1] + 1
            /\ \A i \in DOMAIN tasks.items :
                  Includes(FilteredTasks(tasks.items, selectedDate, "day", tz), tasks.items[i])
                    => Includes(FilteredTasks(tasks.items, selectedDate, "week", tz), tasks.items[i])

====
